---- MODULE Spec2Model ----
(***************************************************************************)
(* Model of ltt/ltt-tracer.c: the LTTng tracer's trace registry (pending   *)
(* and active trace lists under ltt_traces_mutex), the trace lifecycle     *)
(* (setup, set_type, set_channel_*, alloc, start, stop, destroy, exit),    *)
(* the extension (module function) registry, the transport registry and    *)
(* the sub-buffer geometry normalisation.                                  *)
(*                                                                         *)
(* Every caller is a process with a position pc: idle -> call (the         *)
(* function has been entered and waits for ltt_traces_mutex) -> locked     *)
(* (the part under the mutex has run, the mutex is still held) -> done     *)
(* (mutex released, the part after the unlock has run, the return value    *)
(* is final) -> idle.                                                      *)
(***************************************************************************)
EXTENDS Integers, Sequences, FiniteSets, TLC

\* ------------------------------------------------------------- bounds
\* Cap of the counters the code lets grow without limit
\* (num_active_traces, module reference counts).
MaxCount == 2
\* Largest "small" input of the geometry normalisation (0..MaxGeom are all tried).
MaxGeom == 9
\* Cap of the channel-settings allocations outstanding at once.
MaxAllocs == 3

\* ---------------------------------------------------------- constants
NULL == "NULL"
ENOENT == -2
ENOMEM == -12
EBUSY == -16
EEXIST == -17
ENODEV == -19
EINVAL == -22
PAGE_SIZE == 4096
\* unsigned int is 32 bits wide
UINT_BITS == 32
LTT_DEFAULT_SUBBUF_SIZE_LOW == 65536
LTT_DEFAULT_N_SUBBUFS_LOW == 2
LTT_DEFAULT_SUBBUF_SIZE_HIGH == 1048576
LTT_DEFAULT_N_SUBBUFS_HIGH == 2
\* value returned by trace_clock_freq_scale()
FREQ_SCALE == 1

Procs == {"p1", "p2"}
Names == {"t1", "t2"}
\* the channels registered with ltt-channels, by index
ChanNames == <<"metadata", "kernel">>
nr_channels == Len(ChanNames)
Chans == 0 .. (nr_channels - 1)
\* the registered transports (struct ltt_transport): name and owner module
Transports == {[name |-> "mem", owner |-> "mod_mem"]}
TransportTypes == {"mem", "nosuch"}
\* the modules whose reference count the model follows
Modules == {"mod_mem", "mod_filter"}

Pow2(n) == 2 ^ n

\* ------------------------------------------- geometry normalisation
\* INT_MIN, the int whose only set bit is bit 31 (0x80000000, 2^31 as unsigned).
\* A 32-bit value is held as the int with its bit pattern, so INT_MIN stands
\* for 2^31, the one value of the model above INT_MAX.
INT_MIN == (-2147483647) - 1

\* fls(x): position of the most significant set bit, 0 for x = 0
RECURSIVE fls(_)
fls(x) == IF x < 0 THEN UINT_BITS ELSE IF x = 0 THEN 0 ELSE 1 + fls(x \div 2)

\* x is a power of two (hweight32(x) = 1)
IsPow2(x) == x = INT_MIN \/ (x > 0 /\ x = Pow2(fls(x) - 1))

\* a > b as unsigned int
UGt(a, b) == IF (a < 0) = (b < 0) THEN a > b ELSE a < 0

\* get_count_order(count): fls(count) - 1, one more when count is no power of
\* two (count & (count - 1) is non-zero); -1 for count = 0
get_count_order(count) ==
    IF count = 0 \/ IsPow2(count) THEN fls(count) - 1 ELSE fls(count)

\* The values "1 << order" can produce as a 32-bit int, each held as the int
\* with that bit pattern.  A shift count outside 0..31 is undefined: a build
\* whose shifter masks the count gives 1 << (order mod 32), one whose shifter
\* saturates gives 0.
shl1(order) ==
    LET masked == order % UINT_BITS
        bit(k) == IF k = UINT_BITS - 1 THEN INT_MIN ELSE Pow2(k)
    IN  IF order \in 0 .. (UINT_BITS - 1) THEN {bit(order)} ELSE {0, bit(masked)}

\* max_t(unsigned int, a, b)
max_t(a, b) == IF UGt(a, b) THEN a ELSE b

\* prepare_chan_size_num(&subbuf_size, &n_subbufs): the set of results
\* <<subbuf_size, n_subbufs>> the call can leave in its two arguments
prepare_chan_size_num(subbuf_size, n_subbufs) ==
    { <<s, n>> : s \in shl1(get_count_order(max_t(subbuf_size, PAGE_SIZE))),
                 n \in shl1(get_count_order(n_subbufs)) }

\* ---------------------------------------------------------------- state
VARIABLES
    setup_head,                 \* ltt_traces.setup_head: the pending traces, first to last
    head,                       \* ltt_traces.head: the allocated traces, first to last
    num_active_traces,          \* ltt_traces.num_active_traces
    kernel_trace_flag,          \* the per-task trace flag set_/clear_kernel_trace_flag_all_tasks() write
    ltt_transport_list,         \* the registered transports, first to last
    module_refs,                \* reference count of each module (try_module_get / module_put)
    trace_clock_refs,           \* get_trace_clock() calls not yet matched by put_trace_clock()
    channel_settings_allocs,    \* ltt_channels_trace_alloc() calls not yet matched by ltt_channels_trace_free()
    ltt_run_filter_functor,     \* the filter installed by ltt_filter_register()
    ltt_run_filter_owner,
    ltt_filter_control_functor,
    ltt_filter_control_owner,
    ltt_statedump_functor,
    ltt_statedump_owner,
    ltt_traces_mutex,           \* holder of the traces lock, NULL when free
    pc,                         \* position of each caller
    op,                         \* the call each caller is in
    ret,                        \* its return value so far
    exited,                     \* ltt_exit() has run
    geom,                       \* the geometry normalisation's input and result
    reader,                     \* a tracing site walking the active list under RCU
    grace,                      \* the running synchronize_trace() still waits for the reader
    unlinked                    \* the trace a destroy has unlinked and not yet released

vars == <<setup_head, head, num_active_traces, kernel_trace_flag, ltt_transport_list,
          module_refs, trace_clock_refs, channel_settings_allocs,
          ltt_run_filter_functor, ltt_run_filter_owner,
          ltt_filter_control_functor, ltt_filter_control_owner, ltt_statedump_functor,
          ltt_statedump_owner, ltt_traces_mutex, pc, op, ret, exited, geom,
          reader, grace, unlinked>>

registry_vars == <<setup_head, head, num_active_traces, kernel_trace_flag,
                   ltt_transport_list, module_refs, trace_clock_refs,
                   channel_settings_allocs>>
extension_vars == <<ltt_run_filter_functor, ltt_run_filter_owner,
                    ltt_filter_control_functor, ltt_filter_control_owner,
                    ltt_statedump_functor, ltt_statedump_owner>>
rcu_vars == <<reader, grace, unlinked>>

\* a transport pointer that is NULL
NoTransport == [name |-> NULL, owner |-> NULL]
\* a channel pointer that is NULL
NoChannel == [created |-> FALSE, sb_size |-> 0, n_sb |-> 0, overwrite |-> 0,
              switch_timer_interval |-> 0]
\* a call record: the function, its arguments (those it does not take are NULL
\* or 0), ctl when ltt_control(LTT_CONTROL_CREATE_TRACE) makes the call, and
\* found, the function's note of the list it found the trace in
NoOp == [fn |-> NULL, name |-> NULL, type |-> NULL, chan |-> NULL, val |-> 0,
         owner |-> NULL, ctl |-> FALSE, found |-> NULL]

\* a trace pointer that is NULL
NoTrace ==
    [trace_name |-> NULL, transport |-> NoTransport,
     settings |-> [c \in Chans |-> [sb_size |-> 0, n_sb |-> 0, overwrite |-> 0,
                                    switch_timer_interval |-> 0]],
     active |-> 0, kref |-> 0, freq_scale |-> 0, ops |-> NULL, dirs |-> FALSE,
     start_tsc |-> 0, channels |-> [c \in Chans |-> NoChannel]]
\* a tracing site outside any read-side section
NoReader == [in |-> FALSE, trace |-> NULL, saw_active |-> 0]

\* chan_infos[get_channel_type_from_name(name)]: the default geometry of a channel
chan_infos(name) ==
    IF name = "metadata"
    THEN [def_sb_size |-> LTT_DEFAULT_SUBBUF_SIZE_LOW, def_n_sb |-> LTT_DEFAULT_N_SUBBUFS_LOW]
    ELSE [def_sb_size |-> LTT_DEFAULT_SUBBUF_SIZE_HIGH, def_n_sb |-> LTT_DEFAULT_N_SUBBUFS_HIGH]

\* (mutant) a channel lookup that gives the first channel for an unknown name
mutant_channels_get_index_from_name(name) ==
    IF \E c \in Chans : ChanNames[c + 1] = name
    THEN CHOOSE c \in Chans : ChanNames[c + 1] = name
    ELSE 0

\* ltt_channels_get_index_from_name(): the channel's index, -1 when it is unknown
ltt_channels_get_index_from_name(name) ==
    IF \E c \in Chans : ChanNames[c + 1] = name
    THEN CHOOSE c \in Chans : ChanNames[c + 1] = name
    ELSE -1

\* ltt_channels_trace_alloc(): the settings array of a new trace; ow is the
\* overwrite default the channel registry holds for the metadata channel
ltt_channels_trace_alloc(ow) ==
    [c \in Chans |->
        [sb_size |-> 0, n_sb |-> 0,
         overwrite |-> IF ChanNames[c + 1] = "metadata" THEN ow ELSE 0,
         switch_timer_interval |-> 0]]

\* ltt_channels_trace_free(): one settings array less is outstanding
ltt_channels_trace_free(allocs) == allocs - 1

\* index (from 1) of the first trace of a list with the name, 0 when there is none
ListFind(list, trace_name) ==
    IF \E i \in 1 .. Len(list) : list[i].trace_name = trace_name
    THEN CHOOSE i \in 1 .. Len(list) :
            /\ list[i].trace_name = trace_name
            /\ \A j \in 1 .. (i - 1) : list[j].trace_name # trace_name
    ELSE 0

\* (mutant) a search of the active list that never finds the trace
mutant_ltt_trace_find(trace_name) == 0

_ltt_trace_find(trace_name) == ListFind(head, trace_name)

_ltt_trace_find_setup(trace_name) == ListFind(setup_head, trace_name)

\* (mutant) a removal that leaves the entry in the list
mutant_list_del(list, i) == list

\* list_del(): the list without its i-th entry
list_del(list, i) == SubSeq(list, 1, i - 1) \o SubSeq(list, i + 1, Len(list))
\* (mutant) an insertion that loses the entries already in the list
mutant_list_add(entry, list) == <<entry>>

\* list_add(): the entry becomes the first of the list
list_add(entry, list) == <<entry>> \o list
\* list_add_tail(): the entry becomes the last
list_add_tail(entry, list) == Append(list, entry)

\* try_module_get(owner): always true for a NULL owner (built-in code), else
\* false when the module is being unloaded
PinOutcomes(owner) == IF owner = NULL THEN {TRUE} ELSE BOOLEAN
\* (mutant) a module_put() that gives no reference back
mutant_module_put(refs, owner) == refs

module_get(refs, owner) ==
    IF owner = NULL THEN refs ELSE [refs EXCEPT ![owner] = @ + 1]
module_put(refs, owner) ==
    IF owner = NULL THEN refs ELSE [refs EXCEPT ![owner] = @ - 1]

InitRegistry ==
    /\ setup_head = <<>>
    /\ head = <<>>
    /\ num_active_traces = 0
    /\ kernel_trace_flag = FALSE
    /\ ltt_transport_list = <<>>
    /\ module_refs = [m \in Modules |-> 0]
    /\ trace_clock_refs = 0
    /\ channel_settings_allocs = 0
    /\ ltt_run_filter_functor = NULL
    /\ ltt_run_filter_owner = NULL
    /\ ltt_filter_control_functor = "ltt_filter_control_default"
    /\ ltt_filter_control_owner = NULL
    /\ ltt_statedump_functor = "ltt_statedump_default"
    /\ ltt_statedump_owner = NULL
    /\ ltt_traces_mutex = NULL
    /\ pc = [p \in Procs |-> "idle"]
    /\ op = [p \in Procs |-> NoOp]
    /\ ret = [p \in Procs |-> 0]
    /\ exited = FALSE
    /\ reader = NoReader
    /\ grace = FALSE
    /\ unlinked = NoTrace

\* geom before any normalisation of the pair <<s, n>>
GeomOf(s, n) == [in |-> <<s, n>>, out |-> <<s, n>>, first |-> <<s, n>>, applied |-> 0]

Init ==
    /\ InitRegistry
    /\ geom = GeomOf(0, 0)

\* ------------------------------------------------------- call protocol
\* A caller enters a function: the call is recorded, nothing has run yet.
Call(p, o) ==
    /\ ~exited
    /\ pc[p] = "idle"
    /\ pc' = [pc EXCEPT ![p] = "call"]
    /\ op' = [op EXCEPT ![p] = o]
    /\ ret' = [ret EXCEPT ![p] = 0]
    /\ UNCHANGED <<registry_vars, extension_vars, ltt_traces_mutex, exited, geom, rcu_vars>>

\* ltt_lock_traces() by a caller inside function fn
ltt_lock_traces(p, fn) ==
    /\ ~exited
    /\ pc[p] = "call"
    /\ op[p].fn = fn
    /\ ltt_traces_mutex = NULL
    /\ ltt_traces_mutex' = p
    /\ pc' = [pc EXCEPT ![p] = "locked"]

\* the caller returns: its call record is dropped
Return(p) ==
    /\ pc[p] = "done"
    /\ ~(op[p].ctl /\ op[p].fn \in {"ltt_trace_setup", "ltt_trace_set_type"} /\ ret[p] >= 0)
    /\ pc' = [pc EXCEPT ![p] = "idle"]
    /\ op' = [op EXCEPT ![p] = NoOp]
    /\ ret' = [ret EXCEPT ![p] = 0]
    /\ UNCHANGED <<registry_vars, extension_vars, ltt_traces_mutex, exited, geom, rcu_vars>>

\* ------------------------------------------------------ trace registry
\* the struct ltt_trace kzalloc() returns, named, with its settings array
NewTrace(trace_name, settings) ==
    [trace_name |-> trace_name, transport |-> NoTransport, settings |-> settings,
     active |-> 0, kref |-> 0, freq_scale |-> 0, ops |-> NULL, dirs |-> FALSE,
     start_tsc |-> 0, channels |-> [c \in Chans |-> NoChannel]]

\* _ltt_trace_setup(trace_name): the error and the pending list it leaves.
\* kzalloc_ok, chan_ok: whether kzalloc() and ltt_channels_trace_alloc() succeed;
\* ow: the metadata overwrite default ltt_channels_trace_alloc() hands out.
_ltt_trace_setup(trace_name, kzalloc_ok, chan_ok, ow) ==
    LET metadata_index == ltt_channels_get_index_from_name("metadata")
        alloced == ltt_channels_trace_alloc(ow)
        forced == [alloced EXCEPT ![metadata_index].overwrite = 0]
        settings == [c \in Chans |->
                        [forced[c] EXCEPT
                            !.sb_size = chan_infos(ChanNames[c + 1]).def_sb_size,
                            !.n_sb = chan_infos(ChanNames[c + 1]).def_n_sb]]
    IN  IF _ltt_trace_find_setup(trace_name) # 0
        THEN [err |-> EEXIST, setup_head |-> setup_head]
        ELSE IF _ltt_trace_find(trace_name) # 0
        THEN [err |-> EEXIST, setup_head |-> setup_head]
        ELSE IF ~kzalloc_ok \/ ~chan_ok
        THEN [err |-> ENOMEM, setup_head |-> setup_head]
        ELSE [err |-> 0,
              setup_head |-> list_add(NewTrace(trace_name, settings), setup_head)]

ltt_trace_setup(p) ==
    /\ ltt_lock_traces(p, "ltt_trace_setup")
    /\ channel_settings_allocs < MaxAllocs
    /\ \E kzalloc_ok \in BOOLEAN, chan_ok \in BOOLEAN, ow \in {0, 1} :
          LET r == _ltt_trace_setup(op[p].name, kzalloc_ok, chan_ok, ow)
          IN  /\ setup_head' = r.setup_head
              /\ ret' = [ret EXCEPT ![p] = r.err]
              \* the settings array ltt_channels_trace_alloc() gave stays with the trace
              /\ channel_settings_allocs' =
                    IF r.err = 0 THEN channel_settings_allocs + 1
                    ELSE channel_settings_allocs
    /\ UNCHANGED <<head, num_active_traces, kernel_trace_flag, ltt_transport_list,
                   module_refs, trace_clock_refs, extension_vars, op, exited, geom, rcu_vars>>

\* the first registered transport with the name, NoTransport when there is none
FindTransport(trace_type) ==
    IF \E i \in 1 .. Len(ltt_transport_list) : ltt_transport_list[i].name = trace_type
    THEN ltt_transport_list[
            CHOOSE i \in 1 .. Len(ltt_transport_list) :
                /\ ltt_transport_list[i].name = trace_type
                /\ \A j \in 1 .. (i - 1) : ltt_transport_list[j].name # trace_type]
    ELSE NoTransport

ltt_trace_set_type(p) ==
    /\ ltt_lock_traces(p, "ltt_trace_set_type")
    /\ LET i == _ltt_trace_find_setup(op[p].name)
           transport == FindTransport(op[p].type)
       IN  IF i = 0
           THEN /\ ret' = [ret EXCEPT ![p] = ENOENT]
                /\ UNCHANGED setup_head
           ELSE IF transport = NoTransport
           THEN /\ ret' = [ret EXCEPT ![p] = EINVAL]
                /\ UNCHANGED setup_head
           ELSE /\ ret' = [ret EXCEPT ![p] = 0]
                /\ setup_head' = [setup_head EXCEPT ![i].transport = transport]
    /\ UNCHANGED <<head, num_active_traces, kernel_trace_flag, ltt_transport_list,
                   module_refs, trace_clock_refs, channel_settings_allocs, extension_vars, op, exited, geom, rcu_vars>>

\* The part ltt_trace_set_channel_subbufsize, _subbufcount and _switch_timer
\* share: find the pending trace, find the channel, store val in the field.
SetChannel(p, fn, field) ==
    /\ ltt_lock_traces(p, fn)
    /\ LET i == _ltt_trace_find_setup(op[p].name)
           index == ltt_channels_get_index_from_name(op[p].chan)
       IN  IF i = 0 \/ index < 0
           THEN /\ ret' = [ret EXCEPT ![p] = ENOENT]
                /\ UNCHANGED setup_head
           ELSE /\ ret' = [ret EXCEPT ![p] = 0]
                /\ setup_head' = [setup_head EXCEPT ![i].settings[index][field] = op[p].val]
    /\ UNCHANGED <<head, num_active_traces, kernel_trace_flag, ltt_transport_list,
                   module_refs, trace_clock_refs, channel_settings_allocs, extension_vars, op, exited, geom, rcu_vars>>

ltt_trace_set_channel_subbufsize(p) ==
    SetChannel(p, "ltt_trace_set_channel_subbufsize", "sb_size")

ltt_trace_set_channel_subbufcount(p) ==
    SetChannel(p, "ltt_trace_set_channel_subbufcount", "n_sb")

\* ltt_channels_trace_set_timer() stores the interval in the channel's settings
ltt_trace_set_channel_switch_timer(p) ==
    SetChannel(p, "ltt_trace_set_channel_switch_timer", "switch_timer_interval")

\* (mutant) an overwrite setter without the test of the metadata channel
mutant_set_channel_overwrite_err(channel_name, overwrite) ==
    IF ltt_channels_get_index_from_name(channel_name) < 0 THEN ENOENT ELSE 0

\* the error ltt_trace_set_channel_overwrite returns for a pending trace
set_channel_overwrite_err(channel_name, overwrite) ==
    IF overwrite # 0 /\ channel_name = "metadata" THEN EINVAL
    ELSE IF ltt_channels_get_index_from_name(channel_name) < 0 THEN ENOENT
    ELSE 0

ltt_trace_set_channel_overwrite(p) ==
    /\ ltt_lock_traces(p, "ltt_trace_set_channel_overwrite")
    /\ LET i == _ltt_trace_find_setup(op[p].name)
           index == ltt_channels_get_index_from_name(op[p].chan)
           err == IF i = 0 THEN ENOENT ELSE set_channel_overwrite_err(op[p].chan, op[p].val)
       IN  /\ ret' = [ret EXCEPT ![p] = err]
           /\ IF err # 0
              THEN UNCHANGED setup_head
              ELSE setup_head' = [setup_head EXCEPT ![i].settings[index].overwrite = op[p].val]
    /\ UNCHANGED <<head, num_active_traces, kernel_trace_flag, ltt_transport_list,
                   module_refs, trace_clock_refs, channel_settings_allocs, extension_vars, op, exited, geom, rcu_vars>>

\* the geometries prepare_chan_size_num() can give the channels of a trace
ChannelGeometries(trace) ==
    LET prep(c) == prepare_chan_size_num(trace.settings[c].sb_size, trace.settings[c].n_sb)
    IN  {g \in [Chans -> UNION {prep(c) : c \in Chans}] : \A c \in Chans : g[c] \in prep(c)}

\* ltt_create_channel(): the channel, NULL (NoChannel) when the creation failed
ltt_create_channel(trace, c, g, ok) ==
    IF ok
    THEN [created |-> TRUE, sb_size |-> g[c][1], n_sb |-> g[c][2],
          overwrite |-> trace.settings[c].overwrite,
          switch_timer_interval |-> trace.settings[c].switch_timer_interval]
    ELSE NoChannel

\* The body of ltt_trace_alloc() for the pending trace t0 it found.
\* pin: try_module_get(transport owner); dirs_err: what create_dirs() returns;
\* created[c]: whether ltt_create_channel() succeeds for channel c; g: the
\* normalised geometries.  Gives the error, the trace record as the call
\* leaves it, whether the trace was moved to the active list, and whether the
\* transport pin and the clock reference are kept.
trace_alloc(t0, pin, dirs_err, created, g) ==
    LET t1 == [t0 EXCEPT !.kref = 1, !.active = 0, !.freq_scale = FREQ_SCALE]
        t2 == [t1 EXCEPT !.ops = t1.transport.name]
        t3 == [t2 EXCEPT !.dirs = TRUE, !.start_tsc = 1]
        t4 == [t3 EXCEPT !.channels = [c \in Chans |-> ltt_create_channel(t3, c, g, created[c])]]
        \* line 736 tests err, which still holds create_dirs()'s result
        err == dirs_err
    IN  IF t1.transport = NoTransport
        THEN [err |-> EINVAL, trace |-> t1, linked |-> FALSE, held |-> FALSE]
        ELSE IF ~pin
        THEN [err |-> ENODEV, trace |-> t1, linked |-> FALSE, held |-> FALSE]
        ELSE IF dirs_err # 0
        THEN [err |-> dirs_err, trace |-> t2, linked |-> FALSE, held |-> FALSE]
        ELSE IF err # 0
        THEN [err |-> err,
              trace |-> [t4 EXCEPT !.dirs = FALSE,
                                   !.channels = [c \in Chans |-> NoChannel]],
              linked |-> FALSE, held |-> FALSE]
        ELSE [err |-> 0, trace |-> t4, linked |-> TRUE, held |-> TRUE]

ltt_trace_alloc(p) ==
    /\ ltt_lock_traces(p, "ltt_trace_alloc")
    /\ LET i == _ltt_trace_find_setup(op[p].name)
       IN  IF i = 0
           THEN /\ ret' = [ret EXCEPT ![p] = ENOENT]
                /\ UNCHANGED <<setup_head, head, kernel_trace_flag, module_refs,
                               trace_clock_refs>>
           ELSE \E pin \in PinOutcomes(setup_head[i].transport.owner),
                   dirs_err \in {0, ENOMEM},
                   created \in [Chans -> BOOLEAN],
                   g \in ChannelGeometries(setup_head[i]) :
                  LET r == trace_alloc(setup_head[i], pin, dirs_err, created, g)
                  IN  /\ ret' = [ret EXCEPT ![p] = r.err]
                      /\ IF r.linked
                         THEN /\ setup_head' = list_del(setup_head, i)
                              /\ kernel_trace_flag' =
                                    IF head = <<>> THEN TRUE ELSE kernel_trace_flag
                              /\ head' = list_add(r.trace, head)
                         ELSE /\ setup_head' = [setup_head EXCEPT ![i] = r.trace]
                              /\ UNCHANGED <<head, kernel_trace_flag>>
                      /\ IF r.held
                         THEN /\ module_refs' = module_get(module_refs, r.trace.transport.owner)
                              /\ trace_clock_refs' = trace_clock_refs + 1
                         ELSE UNCHANGED <<module_refs, trace_clock_refs>>
    /\ UNCHANGED <<num_active_traces, ltt_transport_list, channel_settings_allocs, extension_vars, op, exited, geom, rcu_vars>>

\* (mutant) a destroy that does not test the active flag
mutant_ltt_trace_destroy(trace) == 0

\* _ltt_trace_destroy(trace) for a trace of the active list: the error
_ltt_trace_destroy(trace) == IF trace.active # 0 THEN EBUSY ELSE 0

\* (mutant) a destroy that never clears the trace flag
mutant_DestroyActive(hd, flag, refs, i) ==
    [head |-> SubSeq(hd, 1, i - 1) \o SubSeq(hd, i + 1, Len(hd)),
     kernel_trace_flag |-> flag,
     module_refs |-> IF hd[i].transport.owner = NULL THEN refs
                     ELSE [refs EXCEPT ![hd[i].transport.owner] = @ - 1]]

\* The effect of a successful _ltt_trace_destroy() followed by
\* __ltt_trace_destroy() on the i-th active trace: it is unlinked, the trace
\* flag is cleared when the list is then empty, its channels are destroyed and
\* its reference dropped, which releases it (ltt_release_trace: remove_dirs,
\* module_put of the transport's owner, kfree).
DestroyActive(hd, flag, refs, i) ==
    LET rest == list_del(hd, i)
    IN  [head |-> rest,
         kernel_trace_flag |-> IF rest = <<>> THEN FALSE ELSE flag,
         module_refs |-> module_put(refs, hd[i].transport.owner)]

ltt_trace_destroy(p) ==
    /\ ltt_lock_traces(p, "ltt_trace_destroy")
    /\ LET i == _ltt_trace_find(op[p].name)
           j == _ltt_trace_find_setup(op[p].name)
       IN  IF i # 0
           THEN IF _ltt_trace_destroy(head[i]) # 0
                THEN /\ ret' = [ret EXCEPT ![p] = _ltt_trace_destroy(head[i])]
                     /\ UNCHANGED <<setup_head, head, kernel_trace_flag, module_refs, op,
                                    channel_settings_allocs>>
                ELSE LET d == DestroyActive(head, kernel_trace_flag, module_refs, i)
                     IN  /\ head' = d.head
                         /\ kernel_trace_flag' = d.kernel_trace_flag
                         /\ module_refs' = d.module_refs
                         /\ channel_settings_allocs' =
                               ltt_channels_trace_free(channel_settings_allocs)
                         /\ ret' = [ret EXCEPT ![p] = 0]
                         /\ op' = [op EXCEPT ![p].found = "head"]
                         /\ UNCHANGED setup_head
           ELSE IF j # 0
           THEN /\ setup_head' = list_del(setup_head, j)
                /\ ret' = [ret EXCEPT ![p] = 0]
                /\ op' = [op EXCEPT ![p].found = "setup_head"]
                \* _ltt_trace_free(): list_del() and kfree(), nothing else
                /\ UNCHANGED <<head, kernel_trace_flag, module_refs, channel_settings_allocs>>
           ELSE /\ ret' = [ret EXCEPT ![p] = ENOENT]
                /\ UNCHANGED <<setup_head, head, kernel_trace_flag, module_refs, op,
                                    channel_settings_allocs>>
    /\ UNCHANGED <<num_active_traces, ltt_transport_list, trace_clock_refs,
                   extension_vars, exited, geom, rcu_vars>>

\* _ltt_trace_start(trace) on the i-th active trace (0: not found); pin is
\* try_module_get(ltt_run_filter_owner).  Gives the error, the active list, the
\* counter and the module references it leaves.
_ltt_trace_start(i, pin) ==
    IF i = 0
    THEN [err |-> ENOENT, head |-> head, num_active_traces |-> num_active_traces,
          module_refs |-> module_refs]
    ELSE IF ~pin
    THEN [err |-> ENODEV, head |-> head, num_active_traces |-> num_active_traces,
          module_refs |-> module_refs]
    ELSE [err |-> 0,
          head |-> [head EXCEPT ![i].active = 1],
          num_active_traces |-> num_active_traces + 1,
          module_refs |-> module_get(module_refs, ltt_run_filter_owner)]

ltt_trace_start(p) ==
    /\ ltt_lock_traces(p, "ltt_trace_start")
    /\ num_active_traces < MaxCount
    /\ \A m \in Modules : module_refs[m] < MaxCount
    /\ \E pin \in PinOutcomes(ltt_run_filter_owner) :
          LET r == _ltt_trace_start(_ltt_trace_find(op[p].name), pin)
          IN  /\ ret' = [ret EXCEPT ![p] = r.err]
              /\ head' = r.head
              /\ num_active_traces' = r.num_active_traces
              /\ module_refs' = r.module_refs
    /\ UNCHANGED <<setup_head, kernel_trace_flag, ltt_transport_list, trace_clock_refs,
                   channel_settings_allocs, extension_vars, op, exited, geom, rcu_vars>>

\* (mutant) a stop that clears the flag and leaves the counter alone
mutant_ltt_trace_stop(hd, num, refs, i) ==
    IF i = 0
    THEN [err |-> ENOENT, head |-> hd, num_active_traces |-> num, module_refs |-> refs]
    ELSE [err |-> 0,
          head |-> [hd EXCEPT ![i].active = 0],
          num_active_traces |-> num,
          module_refs |-> module_put(refs, ltt_run_filter_owner)]

\* _ltt_trace_stop(trace) on the i-th trace of the active list hd (0: not found)
_ltt_trace_stop(hd, num, refs, i) ==
    IF i = 0
    THEN [err |-> ENOENT, head |-> hd, num_active_traces |-> num, module_refs |-> refs]
    ELSE [err |-> 0,
          head |-> [hd EXCEPT ![i].active = 0],
          num_active_traces |-> IF hd[i].active # 0 THEN num - 1 ELSE num,
          module_refs |-> module_put(refs, ltt_run_filter_owner)]

ltt_trace_stop(p) ==
    /\ ltt_lock_traces(p, "ltt_trace_stop")
    /\ \A m \in Modules : module_refs[m] > -MaxCount
    /\ LET r == _ltt_trace_stop(head, num_active_traces, module_refs,
                                _ltt_trace_find(op[p].name))
       IN  /\ ret' = [ret EXCEPT ![p] = r.err]
           /\ head' = r.head
           /\ num_active_traces' = r.num_active_traces
           /\ module_refs' = r.module_refs
    /\ UNCHANGED <<setup_head, kernel_trace_flag, ltt_transport_list, trace_clock_refs,
                   channel_settings_allocs, extension_vars, op, exited, geom, rcu_vars>>

\* ltt_unlock_traces() and the rest of the function up to its return:
\* ltt_trace_start() then calls the state dump, and returns -ENODEV when the
\* state dump module cannot be pinned; ltt_trace_destroy() of an allocated
\* trace then calls put_trace_clock().
ltt_unlock_traces(p) ==
    /\ pc[p] = "locked"
    /\ ltt_traces_mutex = p
    /\ ltt_traces_mutex' = NULL
    /\ pc' = [pc EXCEPT ![p] = "done"]
    /\ IF op[p].fn = "ltt_trace_start" /\ ret[p] = 0
       THEN \E pin \in PinOutcomes(ltt_statedump_owner) :
               ret' = [ret EXCEPT ![p] = IF pin THEN 0 ELSE ENODEV]
       ELSE UNCHANGED ret
    /\ IF op[p].fn = "ltt_trace_destroy" /\ op[p].found = "head"
       THEN trace_clock_refs' = trace_clock_refs - 1
       ELSE UNCHANGED trace_clock_refs
    /\ UNCHANGED <<setup_head, head, num_active_traces, kernel_trace_flag,
                   ltt_transport_list, module_refs, channel_settings_allocs, extension_vars, op, exited, geom, rcu_vars>>

\* ltt_trace_create(), called by ltt_control(LTT_CONTROL_CREATE_TRACE):
\* ltt_trace_setup(), then ltt_trace_set_type(), then ltt_trace_alloc(), each
\* called only when the one before returned no error.
ltt_trace_create(p) ==
    /\ ~exited
    /\ pc[p] = "done"
    /\ op[p].ctl
    /\ op[p].fn \in {"ltt_trace_setup", "ltt_trace_set_type"}
    /\ ret[p] >= 0
    /\ pc' = [pc EXCEPT ![p] = "call"]
    /\ op' = [op EXCEPT ![p].fn = IF op[p].fn = "ltt_trace_setup"
                                  THEN "ltt_trace_set_type" ELSE "ltt_trace_alloc"]
    /\ UNCHANGED <<registry_vars, extension_vars, ltt_traces_mutex, ret, exited, geom, rcu_vars>>

\* (mutant) a stop loop that stops no trace
mutant_StopAll(hd, num, refs, k) ==
    [head |-> hd, num_active_traces |-> num, module_refs |-> refs]

\* ltt_exit(): the stop loop over the active list, from its k-th trace on
RECURSIVE StopAll(_, _, _, _)
StopAll(hd, num, refs, k) ==
    IF k > Len(hd)
    THEN [head |-> hd, num_active_traces |-> num, module_refs |-> refs]
    ELSE LET r == _ltt_trace_stop(hd, num, refs, k)
         IN  StopAll(r.head, r.num_active_traces, r.module_refs, k + 1)

\* ltt_exit(): the destroy loop over the active list, from its k-th trace on.
\* The result of _ltt_trace_destroy() is not looked at: a trace it refuses
\* (-EBUSY) stays linked, and __ltt_trace_destroy() releases it all the same.
RECURSIVE DestroyAll(_, _, _, _)
DestroyAll(hd, flag, refs, k) ==
    IF k > Len(hd)
    THEN [head |-> hd, kernel_trace_flag |-> flag, module_refs |-> refs]
    ELSE IF _ltt_trace_destroy(hd[k]) # 0
    THEN DestroyAll(hd, flag, module_put(refs, hd[k].transport.owner), k + 1)
    ELSE LET d == DestroyActive(hd, flag, refs, k)
         IN  DestroyAll(d.head, d.kernel_trace_flag, d.module_refs, k)

ltt_exit ==
    /\ ~exited
    /\ ltt_traces_mutex = NULL
    /\ \A p \in Procs : pc[p] = "idle"
    /\ LET s == StopAll(head, num_active_traces, module_refs, 1)
           d == DestroyAll(s.head, kernel_trace_flag, s.module_refs, 1)
       IN  /\ head' = d.head
           /\ num_active_traces' = s.num_active_traces
           /\ kernel_trace_flag' = d.kernel_trace_flag
           /\ module_refs' = d.module_refs
    \* every trace of the active list is released (ltt_release_trace), the
    \* pending ones go through _ltt_trace_free()
    /\ channel_settings_allocs' = channel_settings_allocs - Len(head)
    /\ setup_head' = <<>>
    /\ exited' = TRUE
    /\ UNCHANGED <<ltt_transport_list, trace_clock_refs, extension_vars,
                   ltt_traces_mutex, pc, op, ret, geom, rcu_vars>>

\* ------------------------------------------------- transport registry
TransportNamed(name) == CHOOSE t \in Transports : t.name = name

IsRegistered(t) == \E i \in 1 .. Len(ltt_transport_list) : ltt_transport_list[i] = t

\* a trace, pending or allocated, still points to the transport
IsReferenced(t) ==
    \/ \E i \in 1 .. Len(setup_head) : setup_head[i].transport = t
    \/ \E i \in 1 .. Len(head) : head[i].transport = t

\* ltt_transport_register(transport), the transport not being in the list
ltt_transport_register(p) ==
    /\ ltt_lock_traces(p, "ltt_transport_register")
    /\ ~IsRegistered(TransportNamed(op[p].type))
    /\ ltt_transport_list' = list_add_tail(TransportNamed(op[p].type), ltt_transport_list)
    /\ UNCHANGED <<setup_head, head, num_active_traces, kernel_trace_flag, module_refs,
                   trace_clock_refs, channel_settings_allocs, extension_vars, op, ret, exited, geom, rcu_vars>>

\* ltt_transport_unregister(transport); its caller guarantees that the
\* transport is in the list and that no trace points to it any more
ltt_transport_unregister(p) ==
    /\ ltt_lock_traces(p, "ltt_transport_unregister")
    /\ IsRegistered(TransportNamed(op[p].type))
    /\ ~IsReferenced(TransportNamed(op[p].type))
    /\ ltt_transport_list' =
          list_del(ltt_transport_list,
                   CHOOSE i \in 1 .. Len(ltt_transport_list) :
                       ltt_transport_list[i] = TransportNamed(op[p].type))
    /\ UNCHANGED <<setup_head, head, num_active_traces, kernel_trace_flag, module_refs,
                   trace_clock_refs, channel_settings_allocs, extension_vars, op, ret, exited, geom, rcu_vars>>

\* ------------------------------------------------- extension registry
\* the owner slot of a module function
SlotOwner(name) ==
    CASE name = "LTT_FUNCTION_RUN_FILTER" -> ltt_run_filter_owner
      [] name = "LTT_FUNCTION_FILTER_CONTROL" -> ltt_filter_control_owner
      [] name = "LTT_FUNCTION_STATEDUMP" -> ltt_statedump_owner

\* its function slot
SlotFunctor(name) ==
    CASE name = "LTT_FUNCTION_RUN_FILTER" -> ltt_run_filter_functor
      [] name = "LTT_FUNCTION_FILTER_CONTROL" -> ltt_filter_control_functor
      [] name = "LTT_FUNCTION_STATEDUMP" -> ltt_statedump_functor

\* what ltt_module_unregister() leaves in the function slot
DefaultFunctor(name) ==
    CASE name = "LTT_FUNCTION_RUN_FILTER" -> NULL
      [] name = "LTT_FUNCTION_FILTER_CONTROL" -> "ltt_filter_control_default"
      [] name = "LTT_FUNCTION_STATEDUMP" -> "ltt_statedump_default"

\* (mutant) a registration that never finds the slot taken
mutant_slot_taken(name) == FALSE

\* the slot is taken: ltt_module_register() refuses
slot_taken(name) == SlotOwner(name) # NULL

SetFunctor(name, f) ==
    /\ ltt_run_filter_functor' =
          IF name = "LTT_FUNCTION_RUN_FILTER" THEN f ELSE ltt_run_filter_functor
    /\ ltt_filter_control_functor' =
          IF name = "LTT_FUNCTION_FILTER_CONTROL" THEN f ELSE ltt_filter_control_functor
    /\ ltt_statedump_functor' =
          IF name = "LTT_FUNCTION_STATEDUMP" THEN f ELSE ltt_statedump_functor
    /\ UNCHANGED <<ltt_run_filter_owner, ltt_filter_control_owner, ltt_statedump_owner>>

SetOwner(name, o) ==
    /\ ltt_run_filter_owner' =
          IF name = "LTT_FUNCTION_RUN_FILTER" THEN o ELSE ltt_run_filter_owner
    /\ ltt_filter_control_owner' =
          IF name = "LTT_FUNCTION_FILTER_CONTROL" THEN o ELSE ltt_filter_control_owner
    /\ ltt_statedump_owner' =
          IF name = "LTT_FUNCTION_STATEDUMP" THEN o ELSE ltt_statedump_owner
    /\ UNCHANGED <<ltt_run_filter_functor, ltt_filter_control_functor, ltt_statedump_functor>>

\* ltt_module_register(), first step: the test of the owner slot
ltt_module_register(p) ==
    /\ ~exited
    /\ pc[p] = "call"
    /\ op[p].fn = "ltt_module_register"
    /\ IF slot_taken(op[p].name)
       THEN /\ ret' = [ret EXCEPT ![p] = EEXIST]
            /\ pc' = [pc EXCEPT ![p] = "done"]
       ELSE /\ pc' = [pc EXCEPT ![p] = "set_functor"]
            /\ UNCHANGED ret
    /\ UNCHANGED <<registry_vars, extension_vars, ltt_traces_mutex, op, exited, geom, rcu_vars>>

\* second step: the function is stored
ltt_module_register_functor(p) ==
    /\ pc[p] = "set_functor"
    /\ op[p].fn = "ltt_module_register"
    /\ SetFunctor(op[p].name, op[p].type)
    /\ pc' = [pc EXCEPT ![p] = "set_owner"]
    /\ UNCHANGED <<registry_vars, ltt_traces_mutex, op, ret, exited, geom, rcu_vars>>

\* third step: the owner is stored, and the function returns 0
ltt_module_register_owner(p) ==
    /\ pc[p] = "set_owner"
    /\ op[p].fn = "ltt_module_register"
    /\ SetOwner(op[p].name, op[p].owner)
    /\ pc' = [pc EXCEPT ![p] = "done"]
    /\ UNCHANGED <<registry_vars, ltt_traces_mutex, op, ret, exited, geom, rcu_vars>>

\* ltt_module_unregister(), first step: the default function is restored
ltt_module_unregister(p) ==
    /\ ~exited
    /\ pc[p] = "call"
    /\ op[p].fn = "ltt_module_unregister"
    /\ SetFunctor(op[p].name, DefaultFunctor(op[p].name))
    /\ pc' = [pc EXCEPT ![p] = "set_owner"]
    /\ UNCHANGED <<registry_vars, ltt_traces_mutex, op, ret, exited, geom, rcu_vars>>

\* second step: the owner is cleared (and, for the run filter, the
\* quiescent state awaited) and the function returns
ltt_module_unregister_owner(p) ==
    /\ pc[p] = "set_owner"
    /\ op[p].fn = "ltt_module_unregister"
    /\ SetOwner(op[p].name, NULL)
    /\ pc' = [pc EXCEPT ![p] = "done"]
    /\ UNCHANGED <<registry_vars, ltt_traces_mutex, op, ret, exited, geom, rcu_vars>>

\* ------------------------------------- destroy, stop and exit, stepwise
\* The same functions as above, cut at their calls of synchronize_trace(), so
\* that a tracing site can run between their steps.  Positions of the caller:
\* unlinked (list_del_rcu() done, synchronize_trace() running), quiesced
\* (_ltt_trace_destroy() has returned), stopping (flag cleared,
\* synchronize_trace() running), and for ltt_exit() stop_loop, stopped and
\* destroying, with op.val the index of the trace its loop is at.

\* (mutant) a synchronize_trace() that waits for nobody
mutant_synchronize_trace(rd) == FALSE

\* synchronize_trace(): whether the call has a read-side section to wait for,
\* one that was running when the call was made
synchronize_trace(rd) == rd.in

\* ltt_trace_destroy() up to the list_del_rcu() of _ltt_trace_destroy()
ltt_trace_destroy_unlink(p) ==
    /\ ~exited
    /\ pc[p] = "call"
    /\ op[p].fn = "ltt_trace_destroy"
    /\ ltt_traces_mutex = NULL
    /\ ltt_traces_mutex' = p
    /\ LET i == _ltt_trace_find(op[p].name)
           j == _ltt_trace_find_setup(op[p].name)
       IN  IF i # 0
           THEN IF _ltt_trace_destroy(head[i]) # 0
                THEN /\ ret' = [ret EXCEPT ![p] = _ltt_trace_destroy(head[i])]
                     /\ pc' = [pc EXCEPT ![p] = "locked"]
                     /\ UNCHANGED <<setup_head, head, op, grace, unlinked>>
                ELSE /\ head' = list_del(head, i)
                     /\ unlinked' = head[i]
                     /\ grace' = synchronize_trace(reader)
                     /\ pc' = [pc EXCEPT ![p] = "unlinked"]
                     /\ UNCHANGED <<setup_head, op, ret>>
           ELSE IF j # 0
           THEN /\ setup_head' = list_del(setup_head, j)
                /\ ret' = [ret EXCEPT ![p] = 0]
                /\ op' = [op EXCEPT ![p].found = "setup_head"]
                /\ pc' = [pc EXCEPT ![p] = "locked"]
                /\ UNCHANGED <<head, grace, unlinked>>
           ELSE /\ ret' = [ret EXCEPT ![p] = ENOENT]
                /\ pc' = [pc EXCEPT ![p] = "locked"]
                /\ UNCHANGED <<setup_head, head, op, grace, unlinked>>
    /\ UNCHANGED <<num_active_traces, kernel_trace_flag, ltt_transport_list, module_refs,
                   trace_clock_refs, channel_settings_allocs, extension_vars, exited, geom, reader>>

\* the rest of _ltt_trace_destroy(): synchronize_trace() returns, and the
\* trace flag is cleared when the active list is empty
_ltt_trace_destroy_quiesce(p) ==
    /\ pc[p] = "unlinked"
    /\ ~grace
    /\ kernel_trace_flag' = IF head = <<>> THEN FALSE ELSE kernel_trace_flag
    /\ pc' = [pc EXCEPT ![p] = "quiesced"]
    /\ UNCHANGED <<setup_head, head, num_active_traces, ltt_transport_list, module_refs,
                   trace_clock_refs, channel_settings_allocs, extension_vars, ltt_traces_mutex, op, ret, exited,
                   geom, rcu_vars>>

\* __ltt_trace_destroy(trace): the channels are destroyed and the reference
\* dropped, which releases the trace (ltt_release_trace: remove_dirs,
\* module_put of the transport's owner, kfree)
__ltt_trace_destroy(p) ==
    /\ pc[p] = "quiesced"
    /\ module_refs' = module_put(module_refs, unlinked.transport.owner)
    /\ channel_settings_allocs' = ltt_channels_trace_free(channel_settings_allocs)
    /\ unlinked' = NoTrace
    /\ IF op[p].fn = "ltt_exit"
       THEN /\ pc' = [pc EXCEPT ![p] = "destroying"]
            /\ UNCHANGED <<op, ret>>
       ELSE /\ pc' = [pc EXCEPT ![p] = "locked"]
            /\ ret' = [ret EXCEPT ![p] = 0]
            /\ op' = [op EXCEPT ![p].found = "head"]
    /\ UNCHANGED <<setup_head, head, num_active_traces, kernel_trace_flag,
                   ltt_transport_list, trace_clock_refs, extension_vars, ltt_traces_mutex,
                   exited, geom, reader, grace>>

\* ltt_trace_stop() up to the synchronize_trace() of _ltt_trace_stop(); the
\* whole of it when the trace is not found or its capture is off
ltt_trace_stop_clear(p) ==
    /\ ~exited
    /\ pc[p] = "call"
    /\ op[p].fn = "ltt_trace_stop"
    /\ ltt_traces_mutex = NULL
    /\ \A m \in Modules : module_refs[m] > -MaxCount
    /\ ltt_traces_mutex' = p
    /\ LET i == _ltt_trace_find(op[p].name)
           r == _ltt_trace_stop(head, num_active_traces, module_refs, i)
       IN  IF i # 0 /\ head[i].active # 0
           THEN /\ head' = r.head
                /\ num_active_traces' = r.num_active_traces
                /\ grace' = synchronize_trace(reader)
                /\ pc' = [pc EXCEPT ![p] = "stopping"]
                /\ UNCHANGED <<module_refs, ret>>
           ELSE /\ head' = r.head
                /\ num_active_traces' = r.num_active_traces
                /\ module_refs' = r.module_refs
                /\ ret' = [ret EXCEPT ![p] = r.err]
                /\ pc' = [pc EXCEPT ![p] = "locked"]
                /\ UNCHANGED grace
    /\ UNCHANGED <<setup_head, kernel_trace_flag, ltt_transport_list, trace_clock_refs,
                   channel_settings_allocs, extension_vars, op, exited, geom, reader, unlinked>>

\* (mutant) a stop that releases the pin without waiting for the tracing sites
mutant_ltt_trace_stop_put(p) ==
    /\ pc[p] = "stopping"
    /\ module_refs' = module_put(module_refs, ltt_run_filter_owner)
    /\ IF op[p].fn = "ltt_exit"
       THEN /\ pc' = [pc EXCEPT ![p] = "stop_loop"]
            /\ op' = [op EXCEPT ![p].val = @ + 1]
            /\ UNCHANGED ret
       ELSE /\ pc' = [pc EXCEPT ![p] = "locked"]
            /\ ret' = [ret EXCEPT ![p] = 0]
            /\ UNCHANGED op
    /\ UNCHANGED <<setup_head, head, num_active_traces, kernel_trace_flag,
                   ltt_transport_list, trace_clock_refs, channel_settings_allocs, extension_vars, ltt_traces_mutex,
                   exited, geom, rcu_vars>>

\* the rest of _ltt_trace_stop(): synchronize_trace() returns, then
\* module_put(ltt_run_filter_owner)
_ltt_trace_stop_put(p) ==
    /\ pc[p] = "stopping"
    /\ ~grace
    /\ module_refs' = module_put(module_refs, ltt_run_filter_owner)
    /\ IF op[p].fn = "ltt_exit"
       THEN /\ pc' = [pc EXCEPT ![p] = "stop_loop"]
            /\ op' = [op EXCEPT ![p].val = @ + 1]
            /\ UNCHANGED ret
       ELSE /\ pc' = [pc EXCEPT ![p] = "locked"]
            /\ ret' = [ret EXCEPT ![p] = 0]
            /\ UNCHANGED op
    /\ UNCHANGED <<setup_head, head, num_active_traces, kernel_trace_flag,
                   ltt_transport_list, trace_clock_refs, channel_settings_allocs, extension_vars, ltt_traces_mutex,
                   exited, geom, rcu_vars>>

\* ltt_exit(): ltt_lock_traces()
ltt_exit_lock(p) ==
    /\ ~exited
    /\ pc[p] = "call"
    /\ op[p].fn = "ltt_exit"
    /\ ltt_traces_mutex = NULL
    /\ ltt_traces_mutex' = p
    /\ pc' = [pc EXCEPT ![p] = "stop_loop"]
    /\ op' = [op EXCEPT ![p].val = 1]
    /\ UNCHANGED <<registry_vars, extension_vars, ret, exited, geom, rcu_vars>>

\* ltt_exit(), the stop loop: _ltt_trace_stop() of the trace the loop is at,
\* up to its synchronize_trace()
ltt_exit_stop(p) ==
    /\ pc[p] = "stop_loop"
    /\ op[p].val <= Len(head)
    /\ LET k == op[p].val
           r == _ltt_trace_stop(head, num_active_traces, module_refs, k)
       IN  /\ head' = r.head
           /\ num_active_traces' = r.num_active_traces
           /\ IF head[k].active # 0
              THEN /\ grace' = synchronize_trace(reader)
                   /\ pc' = [pc EXCEPT ![p] = "stopping"]
                   /\ UNCHANGED <<module_refs, op>>
              ELSE /\ module_refs' = r.module_refs
                   /\ op' = [op EXCEPT ![p].val = k + 1]
                   /\ UNCHANGED <<grace, pc>>
    /\ UNCHANGED <<setup_head, kernel_trace_flag, ltt_transport_list, trace_clock_refs,
                   channel_settings_allocs, extension_vars, ltt_traces_mutex, ret, exited, geom, reader, unlinked>>

\* ltt_exit(): the stop loop is over, synchronize_trace() is called
ltt_exit_synchronize(p) ==
    /\ pc[p] = "stop_loop"
    /\ op[p].val > Len(head)
    /\ grace' = synchronize_trace(reader)
    /\ pc' = [pc EXCEPT ![p] = "stopped"]
    /\ UNCHANGED <<registry_vars, extension_vars, ltt_traces_mutex, op, ret, exited, geom,
                   reader, unlinked>>

\* ltt_exit(): synchronize_trace() returns, the destroy loop starts
ltt_exit_quiesce(p) ==
    /\ pc[p] = "stopped"
    /\ ~grace
    /\ pc' = [pc EXCEPT ![p] = "destroying"]
    /\ op' = [op EXCEPT ![p].val = 1]
    /\ UNCHANGED <<registry_vars, extension_vars, ltt_traces_mutex, ret, exited, geom,
                   rcu_vars>>

\* ltt_exit(), the destroy loop: _ltt_trace_destroy() of the trace the loop
\* is at, up to its synchronize_trace().  Its result is not looked at: a trace
\* it refuses (-EBUSY) stays linked and goes to __ltt_trace_destroy() all the same.
ltt_exit_unlink(p) ==
    /\ pc[p] = "destroying"
    /\ op[p].val <= Len(head)
    /\ LET k == op[p].val
       IN  /\ unlinked' = head[k]
           /\ IF _ltt_trace_destroy(head[k]) # 0
              THEN /\ pc' = [pc EXCEPT ![p] = "quiesced"]
                   /\ op' = [op EXCEPT ![p].val = k + 1]
                   /\ UNCHANGED <<head, grace>>
              ELSE /\ head' = list_del(head, k)
                   /\ grace' = synchronize_trace(reader)
                   /\ pc' = [pc EXCEPT ![p] = "unlinked"]
                   /\ UNCHANGED op
    /\ UNCHANGED <<setup_head, num_active_traces, kernel_trace_flag, ltt_transport_list,
                   module_refs, trace_clock_refs, channel_settings_allocs, extension_vars, ltt_traces_mutex, ret,
                   exited, geom, reader>>

\* ltt_exit(): the destroy loop is over, the pending traces are freed and the
\* lock released
ltt_exit_free(p) ==
    /\ pc[p] = "destroying"
    /\ op[p].val > Len(head)
    /\ setup_head' = <<>>
    /\ ltt_traces_mutex' = NULL
    /\ exited' = TRUE
    /\ pc' = [pc EXCEPT ![p] = "done"]
    /\ UNCHANGED <<head, num_active_traces, kernel_trace_flag, ltt_transport_list,
                   module_refs, trace_clock_refs, channel_settings_allocs, extension_vars, op, ret, geom, rcu_vars>>

\* A tracing site (the code that writes an event): it enters a read-side
\* section (preemption disabled), walks the active list, reads the active flag
\* of the trace it is at and writes to its channels when the flag is set, and
\* leaves the section.
rcu_read_lock ==
    /\ ~reader.in
    /\ reader' = [NoReader EXCEPT !.in = TRUE]
    /\ UNCHANGED <<registry_vars, extension_vars, ltt_traces_mutex, pc, op, ret, exited,
                   geom, grace, unlinked>>

\* list_for_each_entry_rcu(trace, &ltt_traces.head, list): the site is at a trace
list_for_each_entry_rcu ==
    /\ reader.in
    /\ \E i \in 1 .. Len(head) :
          reader' = [in |-> TRUE, trace |-> head[i].trace_name,
                     saw_active |-> head[i].active]
    /\ UNCHANGED <<registry_vars, extension_vars, ltt_traces_mutex, pc, op, ret, exited,
                   geom, grace, unlinked>>

\* the section ends: a synchronize_trace() that waited for it may return
rcu_read_unlock ==
    /\ reader.in
    /\ reader' = NoReader
    /\ grace' = FALSE
    /\ UNCHANGED <<registry_vars, extension_vars, ltt_traces_mutex, pc, op, ret, exited,
                   geom, unlinked>>


\* ------------------------------------------------ geometry, stepwise
\* the sizes and counts tried: the small ones, those around a page, and the
\* largest ones whose order still fits the word
GeomInputs ==
    (0 .. MaxGeom) \cup {PAGE_SIZE - 1, PAGE_SIZE, PAGE_SIZE + 1,
                         Pow2(30), Pow2(30) + 1, 2147483647}

\* prepare_chan_size_num() applied to the input, then to its own result
Normalize ==
    /\ geom.applied < 2
    /\ \E r \in prepare_chan_size_num(
                   IF geom.applied = 0 THEN geom.in[1] ELSE geom.out[1],
                   IF geom.applied = 0 THEN geom.in[2] ELSE geom.out[2]) :
          geom' = [geom EXCEPT !.out = r, !.first = IF geom.applied = 0 THEN r ELSE @,
                               !.applied = @ + 1]
    /\ UNCHANGED <<registry_vars, extension_vars, ltt_traces_mutex, pc, op, ret, exited,
                   rcu_vars>>

\* ------------------------------------------------------ specifications
Call0(fn) == [NoOp EXCEPT !.fn = fn]

\* the calls of the lifecycle
LifeCalls ==
    {[Call0(fn) EXCEPT !.name = n] :
        fn \in {"ltt_trace_setup", "ltt_trace_alloc", "ltt_trace_destroy",
                "ltt_trace_start", "ltt_trace_stop"},
        n \in Names}
    \cup {[Call0("ltt_trace_set_type") EXCEPT !.name = n, !.type = t] :
            n \in Names, t \in TransportTypes}
    \cup {[Call0("ltt_trace_setup") EXCEPT !.name = n, !.type = t, !.ctl = TRUE] :
            n \in Names, t \in TransportTypes}
    \cup {[Call0(fn) EXCEPT !.type = t.name] :
            fn \in {"ltt_transport_register", "ltt_transport_unregister"},
            t \in Transports}
    \cup {[Call0("ltt_module_register") EXCEPT !.name = "LTT_FUNCTION_RUN_FILTER",
                                               !.type = "run_filter",
                                               !.owner = "mod_filter"],
          [Call0("ltt_module_unregister") EXCEPT !.name = "LTT_FUNCTION_RUN_FILTER"]}

\* the steps of one caller, its calls drawn from the set calls
Step(p, calls) ==
    \/ \E o \in calls : Call(p, o)
    \/ ltt_trace_setup(p)
    \/ ltt_trace_set_type(p)
    \/ ltt_trace_alloc(p)
    \/ ltt_trace_destroy(p)
    \/ ltt_trace_start(p)
    \/ ltt_trace_stop(p)
    \/ ltt_unlock_traces(p)
    \/ ltt_trace_create(p)
    \/ ltt_transport_register(p)
    \/ ltt_transport_unregister(p)
    \/ ltt_module_register(p)
    \/ ltt_module_register_functor(p)
    \/ ltt_module_register_owner(p)
    \/ ltt_module_unregister(p)
    \/ ltt_module_unregister_owner(p)
    \/ Return(p)

\* The lifecycle driven by one caller: every sequence of calls.  The traces
\* lock serialises the callers, so several of them reach the same states.
Next ==
    \/ Step("p1", LifeCalls)
    \/ ltt_exit

Spec == Init /\ [][Next]_vars

\* The geometry normalisation alone, on every pair of inputs tried.
InitGeom ==
    /\ InitRegistry
    /\ \E s \in GeomInputs, n \in GeomInputs : geom = GeomOf(s, n)

NextGeom == Normalize

SpecGeom == InitGeom /\ [][NextGeom]_vars

\* Two callers creating traces at the same time: every interleaving of their
\* calls of ltt_trace_setup(), each call waiting for the traces lock.
ConcCalls == {[Call0("ltt_trace_setup") EXCEPT !.name = n] : n \in Names}

NextConc ==
    \E p \in Procs :
        \/ \E o \in ConcCalls : Call(p, o)
        \/ ltt_trace_setup(p)
        \/ ltt_unlock_traces(p)
        \/ Return(p)

SpecConc == Init /\ [][NextConc]_vars

\* The configuration of one trace, "t1", by one caller: every channel setting,
\* for the channels registered and for one that is not.
CfgChans == {"metadata", "kernel", "nosuch"}
SizeVals == {PAGE_SIZE + 1}
CountVals == {0}
TimerVals == {1}

CfgCalls ==
    {[Call0(fn) EXCEPT !.name = "t1"] :
        fn \in {"ltt_trace_setup", "ltt_trace_alloc", "ltt_trace_destroy"}}
    \cup {[Call0("ltt_trace_set_type") EXCEPT !.name = "t1", !.type = "mem"],
          [Call0("ltt_transport_register") EXCEPT !.type = "mem"]}
    \cup {[Call0("ltt_trace_set_channel_subbufsize") EXCEPT
              !.name = "t1", !.chan = c, !.val = v] : c \in CfgChans, v \in SizeVals}
    \cup {[Call0("ltt_trace_set_channel_subbufcount") EXCEPT
              !.name = "t1", !.chan = c, !.val = v] : c \in CfgChans, v \in CountVals}
    \cup {[Call0("ltt_trace_set_channel_switch_timer") EXCEPT
              !.name = "t1", !.chan = c, !.val = v] : c \in CfgChans, v \in TimerVals}
    \cup {[Call0("ltt_trace_set_channel_overwrite") EXCEPT
              !.name = "t1", !.chan = c, !.val = v] : c \in CfgChans, v \in {0, 1}}

NextCfg ==
    \/ \E o \in CfgCalls : Call("p1", o)
    \/ ltt_trace_setup("p1")
    \/ ltt_trace_set_type("p1")
    \/ ltt_trace_set_channel_subbufsize("p1")
    \/ ltt_trace_set_channel_subbufcount("p1")
    \/ ltt_trace_set_channel_switch_timer("p1")
    \/ ltt_trace_set_channel_overwrite("p1")
    \/ ltt_trace_alloc("p1")
    \/ ltt_trace_destroy("p1")
    \/ ltt_transport_register("p1")
    \/ ltt_unlock_traces("p1")
    \/ Return("p1")

SpecCfg == Init /\ [][NextCfg]_vars

\* The extension registry used by two callers at the same time: two modules,
\* and built-in code (owner NULL), register and unregister two of its functions.
RegFunctions == {"LTT_FUNCTION_FILTER_CONTROL", "LTT_FUNCTION_STATEDUMP"}
Registrants == {[function |-> "fn_a", owner |-> "mod_a"],
                [function |-> "fn_b", owner |-> "mod_b"],
                [function |-> "fn_builtin", owner |-> NULL]}

RegCalls ==
    {[Call0("ltt_module_register") EXCEPT
         !.name = n, !.type = r.function, !.owner = r.owner] :
        n \in RegFunctions, r \in Registrants}
    \cup {[Call0("ltt_module_unregister") EXCEPT !.name = n] : n \in RegFunctions}

NextReg ==
    \E p \in Procs :
        \/ \E o \in RegCalls : Call(p, o)
        \/ ltt_module_register(p)
        \/ ltt_module_register_functor(p)
        \/ ltt_module_register_owner(p)
        \/ ltt_module_unregister(p)
        \/ ltt_module_unregister_owner(p)
        \/ Return(p)

SpecReg == Init /\ [][NextReg]_vars

\* The extension registry used by one caller at a time.
NextRegSeq ==
    \/ \E o \in RegCalls : Call("p1", o)
    \/ ltt_module_register("p1")
    \/ ltt_module_register_functor("p1")
    \/ ltt_module_register_owner("p1")
    \/ ltt_module_unregister("p1")
    \/ ltt_module_unregister_owner("p1")
    \/ Return("p1")

SpecRegSeq == Init /\ [][NextRegSeq]_vars

\* One trace, "t1", taken through its lifecycle by one caller while a module
\* registers and unregisters the state dump.
DumpCalls ==
    {[Call0(fn) EXCEPT !.name = "t1"] :
        fn \in {"ltt_trace_setup", "ltt_trace_alloc", "ltt_trace_destroy",
                "ltt_trace_start", "ltt_trace_stop"}}
    \cup {[Call0("ltt_trace_set_type") EXCEPT !.name = "t1", !.type = "mem"],
          [Call0("ltt_transport_register") EXCEPT !.type = "mem"],
          [Call0("ltt_module_register") EXCEPT !.name = "LTT_FUNCTION_STATEDUMP",
                                               !.type = "fn_a", !.owner = "mod_a"],
          [Call0("ltt_module_unregister") EXCEPT !.name = "LTT_FUNCTION_STATEDUMP"]}

NextDump ==
    \/ \E o \in DumpCalls : Call("p1", o)
    \/ ltt_trace_setup("p1")
    \/ ltt_trace_set_type("p1")
    \/ ltt_trace_alloc("p1")
    \/ ltt_trace_destroy("p1")
    \/ ltt_trace_start("p1")
    \/ ltt_trace_stop("p1")
    \/ ltt_transport_register("p1")
    \/ ltt_module_register("p1")
    \/ ltt_module_register_functor("p1")
    \/ ltt_module_register_owner("p1")
    \/ ltt_module_unregister("p1")
    \/ ltt_module_unregister_owner("p1")
    \/ ltt_unlock_traces("p1")
    \/ Return("p1")

SpecDump == Init /\ [][NextDump]_vars

\* The lifecycle of the traces by one caller, its destroy, stop and exit taken
\* stepwise, while a tracing site walks the active list.
RcuCalls ==
    {[Call0(fn) EXCEPT !.name = n] :
        fn \in {"ltt_trace_setup", "ltt_trace_alloc", "ltt_trace_destroy",
                "ltt_trace_start", "ltt_trace_stop"},
        n \in Names}
    \cup {[Call0("ltt_trace_set_type") EXCEPT !.name = n, !.type = "mem"] : n \in Names}
    \cup {[Call0("ltt_transport_register") EXCEPT !.type = "mem"],
          [Call0("ltt_module_register") EXCEPT !.name = "LTT_FUNCTION_RUN_FILTER",
                                               !.type = "run_filter",
                                               !.owner = "mod_filter"],
          Call0("ltt_exit")}

NextRcu ==
    \/ \E o \in RcuCalls : Call("p1", o)
    \/ ltt_trace_setup("p1")
    \/ ltt_trace_set_type("p1")
    \/ ltt_trace_alloc("p1")
    \/ ltt_trace_start("p1")
    \/ ltt_transport_register("p1")
    \/ ltt_module_register("p1")
    \/ ltt_module_register_functor("p1")
    \/ ltt_module_register_owner("p1")
    \/ ltt_trace_destroy_unlink("p1")
    \/ _ltt_trace_destroy_quiesce("p1")
    \/ __ltt_trace_destroy("p1")
    \/ ltt_trace_stop_clear("p1")
    \/ _ltt_trace_stop_put("p1")
    \/ ltt_exit_lock("p1")
    \/ ltt_exit_stop("p1")
    \/ ltt_exit_synchronize("p1")
    \/ ltt_exit_quiesce("p1")
    \/ ltt_exit_unlink("p1")
    \/ ltt_exit_free("p1")
    \/ ltt_unlock_traces("p1")
    \/ Return("p1")
    \/ rcu_read_lock
    \/ list_for_each_entry_rcu
    \/ rcu_read_unlock

SpecRcu == Init /\ [][NextRcu]_vars


\* ================================================================ claims
\* the number of traces of a list with the name
CountIn(list, trace_name) ==
    Cardinality({i \in 1 .. Len(list) : list[i].trace_name = trace_name})

\* the number of traces with the name, pending and allocated together
Present(trace_name) == CountIn(setup_head, trace_name) + CountIn(head, trace_name)

\* caller p runs, in this step, the part of function fn that holds the traces lock
BodyStep(p, fn) == pc[p] = "call" /\ op[p].fn = fn /\ pc'[p] = "locked"

\* the lock is held and caller p has just run function fn under it
JustRan(p, fn) == pc[p] = "locked" /\ op[p].fn = fn

\* C1: at most one trace with a given name exists in the pending and the
\* active list together, after any sequence of calls; ltt_trace_setup() on a
\* name present in either list returns -EEXIST and adds nothing, and on an
\* absent name a trace is added only by a call that returns 0.
C1_NameUnique ==
    [][ /\ \A n \in Names : Present(n)' <= 1
        /\ \A p \in Procs :
              BodyStep(p, "ltt_trace_setup") =>
                 /\ Present(op[p].name) > 0 =>
                       /\ ret'[p] = EEXIST
                       /\ setup_head' = setup_head
                       /\ head' = head
                 /\ Present(op[p].name) = 0 =>
                       \/ ret'[p] = 0 /\ CountIn(setup_head', op[p].name) = 1
                       \/ ret'[p] = ENOMEM /\ setup_head' = setup_head
      ]_vars

\* C1 witness: a create of the name of an allocated trace was refused.
C1_Witness ==
    \E p \in Procs :
        /\ JustRan(p, "ltt_trace_setup")
        /\ ret[p] = EEXIST
        /\ CountIn(head, op[p].name) = 1

\* C2: ltt_trace_destroy() of an allocated trace whose capture is on returns
\* -EBUSY and leaves both lists (the trace with its active flag, channels and
\* reference count) as they were; ltt_trace_stop() of it clears the flag, and
\* ltt_trace_destroy() of an allocated trace whose capture is off returns 0
\* and leaves the name in neither list.
C2_DestroyBusy ==
    [][ \A p \in Procs :
           LET i == _ltt_trace_find(op[p].name)
           IN  /\ (BodyStep(p, "ltt_trace_destroy") /\ i # 0 /\ head[i].active # 0) =>
                     /\ ret'[p] = EBUSY
                     /\ head' = head
                     /\ setup_head' = setup_head
                     /\ kernel_trace_flag' = kernel_trace_flag
               /\ (BodyStep(p, "ltt_trace_stop") /\ i # 0) =>
                     /\ ret'[p] = 0
                     /\ head'[i].active = 0
                     /\ head'[i].trace_name = op[p].name
               /\ (BodyStep(p, "ltt_trace_destroy") /\ i # 0 /\ head[i].active = 0) =>
                     /\ ret'[p] = 0
                     /\ Present(op[p].name)' = 0
      ]_vars

\* C2 witness: a destroy was refused because the capture is on.
C2_Witness ==
    \E p \in Procs :
        /\ JustRan(p, "ltt_trace_destroy")
        /\ ret[p] = EBUSY
        /\ \E i \in 1 .. Len(head) :
              head[i].trace_name = op[p].name /\ head[i].active = 1 /\ head[i].kref = 1

\* C3: whenever the traces lock is free, the trace flag of the tasks is set
\* exactly when the active list is not empty.
C3_TraceFlag ==
    ltt_traces_mutex = NULL => (kernel_trace_flag <=> head # <<>>)

\* C3 witness: the destroy of the last allocated trace has returned, and the
\* flag is clear.
C3_Witness ==
    \E p \in Procs :
        /\ pc[p] = "done"
        /\ op[p].fn = "ltt_trace_destroy"
        /\ op[p].found = "head"
        /\ ret[p] = 0
        /\ head = <<>>
        /\ ~kernel_trace_flag

\* the traces of both lists
AllTraces ==
    {setup_head[i] : i \in 1 .. Len(setup_head)} \cup {head[i] : i \in 1 .. Len(head)}

\* no trace has overwrite set for its metadata channel, in its settings or in
\* the channel created from them
MetadataNoOverwrite ==
    LET m == ltt_channels_get_index_from_name("metadata")
    IN  \A t \in AllTraces : t.settings[m].overwrite = 0 /\ t.channels[m].overwrite = 0

\* C4: in every state reached, every trace, pending or allocated, has
\* overwrite = 0 for its metadata channel; ltt_trace_set_channel_overwrite()
\* with a non-zero value on the metadata channel changes no setting and
\* returns -EINVAL for a pending trace (-ENOENT when the name is not pending).
C4_MetadataNoOverwrite ==
    [][ /\ MetadataNoOverwrite'
        /\ \A p \in Procs :
              (/\ BodyStep(p, "ltt_trace_set_channel_overwrite")
               /\ op[p].chan = "metadata"
               /\ op[p].val # 0) =>
                 /\ ret'[p] = IF CountIn(setup_head, op[p].name) > 0 THEN EINVAL ELSE ENOENT
                 /\ setup_head' = setup_head
                 /\ head' = head
      ]_vars

\* C4 witness: overwrite = 1 for the metadata channel of a pending trace was refused.
C4_Witness ==
    \E p \in Procs :
        /\ JustRan(p, "ltt_trace_set_channel_overwrite")
        /\ op[p].chan = "metadata"
        /\ op[p].val = 1
        /\ ret[p] = EINVAL
        /\ CountIn(setup_head, op[p].name) = 1

\* C5 (as claimed): ltt_trace_alloc() of a pending trace without transport
\* returns -EINVAL and leaves the trace pending, its record as before the
\* call, and no transport pin, clock reference, directory or channel held.
C5_AllocNoTransportUnaltered ==
    [][ \A p \in Procs :
           LET i == _ltt_trace_find_setup(op[p].name)
           IN  (/\ BodyStep(p, "ltt_trace_alloc")
                /\ i # 0
                /\ setup_head[i].transport = NoTransport) =>
                  /\ ret'[p] = EINVAL
                  /\ setup_head' = setup_head
                  /\ head' = head
                  /\ module_refs' = module_refs
                  /\ trace_clock_refs' = trace_clock_refs
      ]_vars

\* C6 (as claimed): when ltt_control(LTT_CONTROL_CREATE_TRACE) has returned an
\* error from ltt_trace_set_type() or ltt_trace_alloc(), no trace of that name
\* is left in the pending or the active list.
C6_FailedCreateLeavesNothing ==
    \A p \in Procs :
        (/\ pc[p] = "done"
         /\ op[p].ctl
         /\ op[p].fn \in {"ltt_trace_set_type", "ltt_trace_alloc"}
         /\ ret[p] < 0) => Present(op[p].name) = 0

\* C7: ltt_trace_start() of an allocated trace whose capture is off sets the
\* active flag and adds exactly one to num_active_traces (its only other
\* outcome is the documented refusal: the run filter's owner is a module that
\* cannot be pinned, -ENODEV, neither changed); ltt_trace_stop() of a trace
\* whose capture is on clears the flag and takes exactly one off.  With one
\* trace the counter is 1 after the start and 0 after the stop.
C7_StartStopCounter ==
    [][ \A p \in Procs :
           LET i == _ltt_trace_find(op[p].name)
           IN  /\ (BodyStep(p, "ltt_trace_start") /\ i # 0 /\ head[i].active = 0) =>
                     \/ /\ ret'[p] = 0
                        /\ head'[i].active = 1
                        /\ num_active_traces' = num_active_traces + 1
                     \/ /\ ret'[p] = ENODEV
                        /\ ltt_run_filter_owner # NULL
                        /\ head' = head
                        /\ num_active_traces' = num_active_traces
               /\ (BodyStep(p, "ltt_trace_stop") /\ i # 0 /\ head[i].active # 0) =>
                     /\ ret'[p] = 0
                     /\ head'[i].active = 0
                     /\ num_active_traces' = num_active_traces - 1
      ]_vars

\* C7 witness: the one allocated trace has been started, and the counter is 1.
C7_Witness ==
    \E p \in Procs :
        /\ JustRan(p, "ltt_trace_start")
        /\ ret[p] = 0
        /\ Len(head) = 1
        /\ head[1].trace_name = op[p].name
        /\ head[1].active = 1
        /\ num_active_traces = 1

\* caller p takes, in this step, the step of function fn that leaves position at
RegStep(p, fn, at) == pc[p] = at /\ op[p].fn = fn /\ pc'[p] # at

\* C8: ltt_module_register() of a function whose slot has an owner returns
\* -EEXIST and leaves the installed function and the owner as they were;
\* when ltt_module_unregister() returns, the slot holds the default function
\* and a NULL owner; a register that finds the owner NULL goes on, and
\* returns 0 with its function and owner installed.
C8_RegisterTwice ==
    [][ \A p \in Procs :
           LET n == op[p].name
           IN  /\ (RegStep(p, "ltt_module_register", "call") /\ SlotOwner(n) # NULL) =>
                     /\ ret'[p] = EEXIST
                     /\ pc'[p] = "done"
                     /\ UNCHANGED extension_vars
               /\ (RegStep(p, "ltt_module_register", "call") /\ SlotOwner(n) = NULL) =>
                     pc'[p] = "set_functor"
               /\ RegStep(p, "ltt_module_register", "set_owner") =>
                     /\ pc'[p] = "done"
                     /\ ret'[p] = 0
                     /\ SlotFunctor(n)' = op[p].type
                     /\ SlotOwner(n)' = op[p].owner
               /\ RegStep(p, "ltt_module_unregister", "set_owner") =>
                     /\ pc'[p] = "done"
                     /\ SlotFunctor(n)' = DefaultFunctor(n)
                     /\ SlotOwner(n)' = NULL
      ]_vars

\* C8 witness: a second filter control was refused; the first is still installed.
C8_Witness ==
    \E p \in Procs :
        /\ pc[p] = "done"
        /\ op[p].fn = "ltt_module_register"
        /\ op[p].name = "LTT_FUNCTION_FILTER_CONTROL"
        /\ ret[p] = EEXIST
        /\ ltt_filter_control_owner # NULL
        /\ ltt_filter_control_owner # op[p].owner
        /\ ltt_filter_control_functor # op[p].type

\* callers p and q are both inside ltt_trace_setup(), past its locked part,
\* with different names
BothCreated(p, q) ==
    /\ p # q
    /\ pc[p] \in {"locked", "done"} /\ op[p].fn = "ltt_trace_setup"
    /\ pc[q] \in {"locked", "done"} /\ op[q].fn = "ltt_trace_setup"
    /\ op[p].name # op[q].name

\* C9: of two ltt_trace_setup() calls with different names that are in
\* progress together, in every interleaving, each one that finds its name free
\* returns 0 (unless its memory allocation fails: -ENOMEM, nothing added) and
\* never -EEXIST; once both have returned 0 each name is exactly once in the
\* pending list and not in the active list.
C9_ConcurrentCreate ==
    [][ /\ \A p \in Procs :
              (/\ BodyStep(p, "ltt_trace_setup")
               /\ Present(op[p].name) = 0
               /\ \E q \in Procs \ {p} :
                     pc[q] # "idle" /\ op[q].fn = "ltt_trace_setup"
                                    /\ op[q].name # op[p].name) =>
                 \/ ret'[p] = 0
                 \/ ret'[p] = ENOMEM /\ setup_head' = setup_head
        /\ \A p, q \in Procs :
              (BothCreated(p, q)' /\ ret'[p] = 0 /\ ret'[q] = 0) =>
                 \A n \in {op'[p].name, op'[q].name} :
                    CountIn(setup_head', n) = 1 /\ CountIn(head', n) = 0
      ]_vars

\* C9 witness: both creates have returned 0.
C9_Witness ==
    \E p, q \in Procs :
        /\ BothCreated(p, q)
        /\ pc[p] = "done" /\ pc[q] = "done"
        /\ ret[p] = 0 /\ ret[q] = 0
        /\ Len(setup_head) = 2

\* a >= b as unsigned int
UGe(a, b) == a = b \/ UGt(a, b)

\* out is the smallest power of two that is at least low and not below in
SmallestPow2(out, in, low) ==
    /\ IsPow2(out)
    /\ UGe(out, low)
    /\ UGe(out, in)
    /\ \A k \in 0 .. (UINT_BITS - 2) :
          (UGe(Pow2(k), low) /\ UGe(Pow2(k), in)) => UGe(Pow2(k), out)

\* C10 (as claimed): for every size and count tried, prepare_chan_size_num()
\* gives a size that is the smallest power of two that is at least a page and
\* not below the input, and a count that is the smallest power of two not
\* below the input; applied to its own result it gives the same result.
C10_NormalizePow2 ==
    /\ geom.applied >= 1 =>
          /\ SmallestPow2(geom.first[1], geom.in[1], PAGE_SIZE)
          /\ SmallestPow2(geom.first[2], geom.in[2], 1)
    /\ geom.applied = 2 => geom.out = geom.first

\* C11 (as claimed): an ltt_trace_alloc() of a pending trace either returns 0
\* with every channel of the trace created, or (a channel creation failed)
\* returns an error with the trace still pending, nothing linked into the
\* active list, no channel or directory left and the transport pin released.
C11_ChannelFailureRolledBack ==
    [][ \A p \in Procs :
           LET n == op[p].name
               i == _ltt_trace_find_setup(n)
               j == ListFind(setup_head', n)
               k == ListFind(head', n)
           IN  (BodyStep(p, "ltt_trace_alloc") /\ i # 0) =>
                  \/ /\ ret'[p] = 0
                     /\ k # 0
                     /\ \A c \in Chans : head'[k].channels[c].created
                  \/ /\ ret'[p] # 0
                     /\ head' = head
                     /\ j # 0
                     /\ ~setup_head'[j].dirs
                     /\ \A c \in Chans : ~setup_head'[j].channels[c].created
                     /\ module_refs' = module_refs
      ]_vars

\* C12 (as claimed): an ltt_trace_start() that has set the active flag and
\* incremented the counter under the lock returns 0, whatever the pin of the
\* state dump module gives after the unlock.
C12_StartBestEffort ==
    [][ \A p \in Procs :
           (/\ pc[p] = "locked"
            /\ op[p].fn = "ltt_trace_start"
            /\ ret[p] = 0
            /\ pc'[p] = "done") => ret'[p] = 0
      ]_vars

\* the two callers are both between the test of the owner slot and the store
\* of the owner, registering the same function with owners that are not NULL
BothPastCheck(p, q) ==
    /\ p # q
    /\ op[p].fn = "ltt_module_register" /\ op[q].fn = "ltt_module_register"
    /\ op[p].name = op[q].name
    /\ op[p].owner # NULL /\ op[q].owner # NULL
    /\ pc[p] \in {"set_functor", "set_owner"}
    /\ pc[q] \in {"set_functor", "set_owner"}

\* C14 (as claimed): two ltt_module_register() calls for the same function
\* are serialised: they are never both past the test of the owner slot, so
\* only one of them installs its function and owner and returns 0.
C14_RegisterSerialized ==
    \A p, q \in Procs : ~BothPastCheck(p, q)

\* C15 (as claimed): ltt_trace_set_type() returns -ENOENT when the trace is
\* not pending and when no registered transport has the name, and then
\* changes the transport of no trace.
C15_SetTypeNotFound ==
    [][ \A p \in Procs :
           (/\ BodyStep(p, "ltt_trace_set_type")
            /\ \/ _ltt_trace_find_setup(op[p].name) = 0
               \/ FindTransport(op[p].type) = NoTransport) =>
              /\ ret'[p] = ENOENT
              /\ setup_head' = setup_head
              /\ head' = head
      ]_vars

\* C17 (as claimed): every trace of the active list has its transport
\* operations set, its start timestamp latched and all its channels created.
C17_LinkedFullyBuilt ==
    \A i \in 1 .. Len(head) :
        /\ head[i].ops # NULL
        /\ head[i].start_tsc # 0
        /\ \A c \in Chans : head[i].channels[c].created

\* C18: every trace name is in at most one of the pending and the active list
\* (a live trace in exactly one); a trace enters the active list only in an
\* ltt_trace_alloc() that returns 0 and takes it off the pending list; a trace
\* of the active list never appears in the pending list; ltt_trace_alloc() of
\* an allocated trace returns -ENOENT and changes neither list.
C18_OneCollection ==
    [][ /\ \A n \in Names : Present(n)' <= 1
        /\ \A n \in Names :
              (CountIn(head, n) = 0 /\ CountIn(head', n) = 1) =>
                 \E p \in Procs :
                    /\ BodyStep(p, "ltt_trace_alloc")
                    /\ op[p].name = n
                    /\ ret'[p] = 0
                    /\ CountIn(setup_head, n) = 1
                    /\ CountIn(setup_head', n) = 0
        /\ \A n \in Names : CountIn(head, n) = 1 => CountIn(setup_head', n) = 0
        /\ \A p \in Procs :
              (BodyStep(p, "ltt_trace_alloc") /\ CountIn(head, op[p].name) = 1) =>
                 /\ ret'[p] = ENOENT
                 /\ head' = head
                 /\ setup_head' = setup_head
      ]_vars

\* C18 witness: ltt_trace_alloc() of an allocated trace was refused.
C18_Witness ==
    \E p \in Procs :
        /\ JustRan(p, "ltt_trace_alloc")
        /\ ret[p] = ENOENT
        /\ CountIn(head, op[p].name) = 1
        /\ CountIn(setup_head, op[p].name) = 0

\* C20: ltt_exit(), from any state it can start in, leaves no trace with
\* capture on after its stop loop, and when it has run the active and the
\* pending list are empty and the trace flag of the tasks is clear.
C20_ShutdownDrains ==
    [][ (~exited /\ exited') =>
           /\ \A i \in 1 .. Len(head) :
                 StopAll(head, num_active_traces, module_refs, 1).head[i].active = 0
           /\ head' = <<>>
           /\ setup_head' = <<>>
           /\ \A t \in AllTraces' : t.active = 0
           /\ ~kernel_trace_flag'
      ]_vars

\* C20 witness: ltt_exit() has run and destroyed an allocated trace (whose
\* clock reference it leaves), and both lists are empty.
C20_Witness ==
    /\ exited
    /\ trace_clock_refs > 0
    /\ head = <<>>
    /\ setup_head = <<>>
    /\ ~kernel_trace_flag

\* caller p runs, in this step, __ltt_trace_destroy() on the trace it holds
TeardownStep(p) == pc[p] = "quiesced" /\ pc'[p] # "quiesced"

\* C13 (as claimed): ltt_trace_destroy() runs __ltt_trace_destroy() (channel
\* teardown, release of the reference) when it has released the traces lock.
C13_TeardownOutsideLock ==
    [][ \A p \in Procs :
           (TeardownStep(p) /\ op[p].fn = "ltt_trace_destroy") => ltt_traces_mutex = NULL
      ]_vars

\* C16: in every interleaving of ltt_trace_destroy() or ltt_exit() with a
\* tracing site, a trace is torn down and released only when it is off the
\* active list and the synchronize_trace() called after the unlink has
\* returned, and then the site is not at that trace; the site is only ever at
\* a trace that is in the active list or unlinked and not yet released.
C16_UnlinkQuiesceFree ==
    [][ /\ \A p \in Procs :
              TeardownStep(p) =>
                 /\ unlinked # NoTrace
                 /\ CountIn(head, unlinked.trace_name) = 0
                 /\ ~grace
                 /\ reader.trace # unlinked.trace_name
        /\ \A p \in Procs :
              (pc[p] # "unlinked" /\ pc'[p] = "unlinked") =>
                 /\ unlinked' # NoTrace
                 /\ CountIn(head', unlinked'.trace_name) = 0
        /\ reader'.trace # NULL =>
              \/ CountIn(head', reader'.trace) = 1
              \/ unlinked'.trace_name = reader'.trace
      ]_vars

\* C16 witness: a trace is unlinked, the tracing site is still at it, and the
\* destroy waits in synchronize_trace().
C16_Witness ==
    \E p \in Procs :
        /\ pc[p] = "unlinked"
        /\ grace
        /\ reader.in
        /\ reader.trace = unlinked.trace_name
        /\ CountIn(head, unlinked.trace_name) = 0

\* the trace the stop in progress of caller p is about
StoppingName(p) ==
    IF op[p].fn = "ltt_exit" THEN head[op[p].val].trace_name ELSE op[p].name

\* C19: ltt_trace_stop() of a trace whose capture is on first clears the
\* active flag and decrements num_active_traces, the filter pin still held;
\* it releases the pin only when synchronize_trace() has returned, flag and
\* counter as the first step left them, and then no tracing site is in a
\* section in which it saw the flag of that trace set.
C19_StopOrder ==
    [][ \A p \in Procs :
           LET i == _ltt_trace_find(op[p].name)
           IN  /\ (/\ pc[p] = "call" /\ op[p].fn = "ltt_trace_stop" /\ pc'[p] # "call"
                   /\ i # 0 /\ head[i].active # 0) =>
                     /\ pc'[p] = "stopping"
                     /\ head'[i].active = 0
                     /\ num_active_traces' = num_active_traces - 1
                     /\ module_refs' = module_refs
               /\ (pc[p] = "stopping" /\ pc'[p] # "stopping") =>
                     /\ ~grace
                     /\ ~(reader.in /\ reader.saw_active # 0
                                    /\ reader.trace = StoppingName(p))
                     /\ module_refs' = module_put(module_refs, ltt_run_filter_owner)
                     /\ head' = head
                     /\ num_active_traces' = num_active_traces
      ]_vars

\* C19 witness: the flag is cleared, a tracing site that saw it set is still
\* in its section, and the filter module is still pinned.
C19_Witness ==
    \E p \in Procs :
        /\ pc[p] = "stopping"
        /\ op[p].fn = "ltt_trace_stop"
        /\ grace
        /\ reader.in
        /\ reader.saw_active = 1
        /\ reader.trace = op[p].name
        /\ ltt_run_filter_owner = "mod_filter"
        /\ module_refs["mod_filter"] >= 1

\* the functions that set a channel setting of a pending trace
SetChannelFns ==
    {"ltt_trace_set_channel_subbufsize", "ltt_trace_set_channel_subbufcount",
     "ltt_trace_set_channel_switch_timer", "ltt_trace_set_channel_overwrite"}

\* C21: each of the four channel setters, called with a trace name that is
\* not in the pending list (unknown or allocated) or with a channel that is
\* not registered, returns -ENOENT and leaves both lists as they were; no call
\* of a setter changes a trace of the active list.
C21_SettersPendingOnly ==
    [][ \A p \in Procs : \A fn \in SetChannelFns :
           /\ (/\ BodyStep(p, fn)
               /\ \/ CountIn(setup_head, op[p].name) = 0
                  \/ \A c \in Chans : ChanNames[c + 1] # op[p].chan) =>
                 /\ ret'[p] = ENOENT
                 /\ setup_head' = setup_head
                 /\ head' = head
           /\ BodyStep(p, fn) => head' = head
      ]_vars

\* C21 witness: a setter was refused for an allocated trace and a registered channel.
C21_Witness ==
    \E p \in Procs :
        /\ JustRan(p, "ltt_trace_set_channel_subbufsize")
        /\ op[p].chan = "kernel"
        /\ ret[p] = ENOENT
        /\ CountIn(head, op[p].name) = 1
        /\ CountIn(setup_head, op[p].name) = 0

\* the number of traces of the active list whose active flag is set
ActiveCount == Cardinality({i \in 1 .. Len(head) : head[i].active # 0})

\* C22 (as claimed): num_active_traces is the number of traces of the active
\* list whose active flag is set, and is never negative.
C22_CounterMatchesFlags ==
    /\ num_active_traces = ActiveCount
    /\ num_active_traces >= 0

\* C23 (as claimed): ltt_trace_stop() of a trace whose capture is off gives
\* back no reference of the filter's owner, and the references held on a
\* module (pins taken minus pins given back) are never negative.
C23_FilterPinsBalanced ==
    [][ /\ \A p \in Procs :
              LET i == _ltt_trace_find(op[p].name)
              IN  (BodyStep(p, "ltt_trace_stop") /\ i # 0 /\ head[i].active = 0) =>
                     module_refs' = module_refs
        /\ \A m \in Modules : module_refs'[m] >= 0
      ]_vars

\* the number of traces of the active list bound to a transport of the module
BoundTo(hd, m) == Cardinality({i \in 1 .. Len(hd) : hd[i].transport.owner = m})

\* C24: the references held on the owner of a transport are as many as the
\* traces of the active list bound to it; an ltt_trace_alloc() that returns an
\* error leaves the references as they were, one that returns 0 takes one, and
\* the release of an allocated trace gives exactly one back.
C24_TransportPins ==
    [][ /\ \A t \in Transports : module_refs'[t.owner] = BoundTo(head', t.owner)
        /\ \A p \in Procs :
              LET i == _ltt_trace_find_setup(op[p].name)
                  k == _ltt_trace_find(op[p].name)
              IN  /\ (BodyStep(p, "ltt_trace_alloc") /\ ret'[p] # 0) =>
                        module_refs' = module_refs
                  /\ (BodyStep(p, "ltt_trace_alloc") /\ i # 0 /\ ret'[p] = 0) =>
                        module_refs' = module_get(module_refs, setup_head[i].transport.owner)
                  /\ (BodyStep(p, "ltt_trace_destroy") /\ k # 0 /\ ret'[p] = 0) =>
                        module_refs'[head[k].transport.owner] =
                           module_refs[head[k].transport.owner] - 1
      ]_vars

\* C24 witness: with one trace allocated, the ltt_trace_alloc() of another has
\* failed after it had pinned the transport, and one reference is held.
C24_Witness ==
    \E p \in Procs :
        /\ JustRan(p, "ltt_trace_alloc")
        /\ ret[p] = ENOMEM
        /\ Len(head) = 1
        /\ CountIn(setup_head, op[p].name) = 1
        /\ module_refs["mod_mem"] = 1

\* C25 (as claimed): the settings arrays outstanding are as many as the
\* traces in the pending and the active list.
C25_SettingsGivenBack ==
    channel_settings_allocs = Len(setup_head) + Len(head)
====
